---- MODULE Spec2Model ----
(***************************************************************************)
(* Model of src/pg.c: the BGZF block encoder (bgzip_compress_block), the   *)
(* block stream driver (pg_bgzip_compress) and the whole-buffer gzip       *)
(* encoder (pg_bgzip_gzip_compress).                                       *)
(*                                                                         *)
(* Buffers are modelled by their layout, not byte by byte: a buffer is a   *)
(* sequence of blocks, a block a sequence of pieces, a piece either a run  *)
(* of concrete bytes (headers, BSIZE, ISIZE, the EOF marker) or an opaque  *)
(* run produced by libdeflate (the deflate payload of an input slice, the  *)
(* CRC32 of an input slice) of a known length.  The input buffer is its    *)
(* length; a chunk is the slice (off, len) of it.                          *)
(*                                                                         *)
(* libdeflate is the environment.  It is modelled by its documented        *)
(* contract: the allocator returns NULL for a level outside 0..12; a       *)
(* compress call returns the compressed size, or 0 when that size exceeds  *)
(* the space it was given.  The compressed size of a slice at a level is   *)
(* fixed per behaviour (the primitive is deterministic) and drawn in Init. *)
(***************************************************************************)
EXTENDS Integers, Sequences, FiniteSets, TLC

VARIABLES
    in_len,          \* VARSIZE_ANY_EXHDR(uncompressed): length of the input buffer B
    level,           \* the compression_level argument
    bigEndian,       \* byte order of the host the module is built for
    nat,             \* nat[i]: raw-deflate size libdeflate produces for chunk i of B at level
    gznat,           \* raw-deflate size libdeflate produces for the whole of B at level
    pc,              \* "idle" between calls, "loop" inside pg_bgzip_compress
    cur,             \* the entry point of the running / last call
    with_eof,        \* pg_bgzip_compress: with_eof
    in_off,          \* pg_bgzip_compress: in - VARDATA_ANY(uncompressed)
    in_size,         \* pg_bgzip_compress: in_size
    compressed,      \* the output buffer: sequence of blocks
    compressed_size, \* compressed_size
    bufLive,         \* number of output buffers currently allocated
    zLive,           \* number of libdeflate compressors currently allocated
    nPalloc,         \* output-buffer allocations made by the running / last call
    nZalloc,         \* compressor allocations attempted by the running / last call
    calls,           \* log of the bgzip_compress_block invocations of the running / last call
    results,         \* per entry point, what the last such call returned
    encArgs,         \* arguments of a direct call of bgzip_compress_block
    encRes           \* its outcome

vars == <<in_len, level, bigEndian, nat, gznat, pc, cur, with_eof, in_off, in_size,
          compressed, compressed_size, bufLive, zLive, nPalloc, nZalloc, calls,
          results, encArgs, encRes>>

inputVars == <<in_len, level, bigEndian, nat, gznat>>
encVars == <<encArgs, encRes>>

(***************************************************************************)
(* Program constants                                                       *)
(***************************************************************************)
BGZIP_BLOCK_SIZE == 65280
BGZIP_MAX_BLOCK_SIZE == 65536
BLOCK_HEADER_LENGTH == 18
BLOCK_FOOTER_LENGTH == 8
EOF_MARKER_LENGTH == 28

\* size_t arithmetic wraps modulo SizeMod.  TLC's integers are 32 bits wide, so
\* the modulus stands for 2^64 (2^32 on ILP32); every size the model handles is
\* far below it, which is all the wrap-around of `*dlen - 18 - 8` needs.
SizeMod == 1073741824

\* libdeflate: GZIP_MIN_OVERHEAD (10-byte header + 8-byte footer)
GZIP_MIN_OVERHEAD == 18
\* libdeflate: the largest level libdeflate_alloc_compressor_ex accepts
LIBDEFLATE_MAX_LEVEL == 12
\* the shortest raw-deflate stream that holds at least one literal
MinDeflateLen == 3
\* a stored deflate block: 5 bytes of header for at most 65535 bytes of data
STORED_BLOCK_MAX == 65535
STORED_BLOCK_HEADER == 5

(***************************************************************************)
(* Bounds of the model                                                     *)
(***************************************************************************)
MaxChunks == 3

g_magic == <<31, 139, 8, 4, 0, 0, 0, 0, 0, 255, 6, 0, 66, 67, 2, 0, 0, 0>>
eof_marker == <<31, 139, 8, 4, 0, 0, 0, 0, 0, 255, 6, 0, 66, 67, 2, 0,
                27, 0, 3, 0, 0, 0, 0, 0, 0, 0, 0, 0>>
\* the 12 bytes the zero-length path of bgzip_compress_block writes at dst+16
empty_tail == <<27, 0, 3, 0, 0, 0, 0, 0, 0, 0, 0, 0>>

Min(a, b) == IF a < b THEN a ELSE b
Max(a, b) == IF a > b THEN a ELSE b
CeilDiv(a, b) == (a + b - 1) \div b

\* a - b in size_t
SubSizeT(a, b) == (a - b) % SizeMod

(***************************************************************************)
(* Byte packing                                                            *)
(***************************************************************************)
\* a uint32_t value as its four bytes, most significant first (TLC's integers
\* are too narrow for a byte-swapped 32-bit value)
U32(x) == <<(x \div 16777216) % 256, (x \div 65536) % 256, (x \div 256) % 256, x % 256>>

\* the object representation in memory of the uint32_t q
Repr32(q, be) == IF be THEN q ELSE <<q[4], q[3], q[2], q[1]>>

bswap16(v) == (v % 256) * 256 + (v \div 256)
bswap32(q) == <<q[4], q[3], q[2], q[1]>>

\* htole16 / htole32: the identity on a little-endian host, a byte swap on a
\* big-endian one
htole16(v, be) == IF be THEN bswap16(v) ELSE v
htole32(q, be) == IF be THEN bswap32(q) ELSE q

\* packInt16: the uint16_t parameter truncates value; htole16's result is stored in
\* a uint32_t and the FIRST two bytes of that object are copied
packInt16(value, be) ==
    SubSeq(Repr32(U32(htole16(value % 65536, be)), be), 1, 2)

\* packInt32 (for a value below 2^31: every length the model handles)
packInt32(value, be) == Repr32(htole32(U32(value), be), be)

\* the little-endian 16-bit number stored in two bytes
unpackInt16(b) == b[1] + 256 * b[2]

(***************************************************************************)
(* Pieces and blocks                                                       *)
(***************************************************************************)
Bytes(v) == [k |-> "bytes", v |-> v, off |-> 0, len |-> 0, lvl |-> 0, n |-> Len(v)]
\* the raw-deflate stream of B[off .. off+len) at level lvl, n bytes long
Deflate(off, len, lvl, n) ==
    [k |-> "deflate", v |-> <<>>, off |-> off, len |-> len, lvl |-> lvl, n |-> n]
\* the 4 bytes packInt32 writes for libdeflate_crc32(0, B[off .. off+len))
Crc32(off, len) ==
    [k |-> "crc32", v |-> <<>>, off |-> off, len |-> len, lvl |-> 0, n |-> 4]
\* the gzip member libdeflate_gzip_compress writes for B[off .. off+len)
GzipMember(off, len, lvl, n) ==
    [k |-> "gzip", v |-> <<>>, off |-> off, len |-> len, lvl |-> lvl, n |-> n]

RECURSIVE BlockLen(_)
BlockLen(b) == IF b = <<>> THEN 0 ELSE Head(b).n + BlockLen(Tail(b))

RECURSIVE TotalLen(_)
TotalLen(bs) == IF bs = <<>> THEN 0 ELSE BlockLen(Head(bs)) + TotalLen(Tail(bs))

\* the byte at offset i (from 0) of block b: a number, or -1 for a byte of an
\* opaque piece
RECURSIVE ByteAt(_, _)
ByteAt(b, i) ==
    IF b = <<>> THEN -2
    ELSE IF i < Head(b).n
         THEN (IF Head(b).k = "bytes" THEN Head(b).v[i + 1] ELSE -1)
         ELSE ByteAt(Tail(b), i - Head(b).n)

(***************************************************************************)
(* libdeflate, by its contract                                             *)
(***************************************************************************)
\* libdeflate_alloc_compressor_ex: NULL (FALSE) when the level is outside
\* [0, 12]; the allocator it is given (palloc0) never returns NULL
libdeflate_alloc_compressor_ex(lvl) == lvl >= 0 /\ lvl <= LIBDEFLATE_MAX_LEVEL

\* the size of len bytes written as stored deflate blocks: what level 0 produces
\* and what any level falls back to for incompressible data
StoredLen(len) == len + STORED_BLOCK_HEADER * Max(1, CeilDiv(len, STORED_BLOCK_MAX))

\* the raw-deflate sizes libdeflate may produce for a slice of len bytes at lvl:
\* the two ends of the range, well compressed and incompressible
NaturalSizes(len, lvl) ==
    IF lvl <= 0 \/ len = 0 THEN {StoredLen(len)} ELSE {MinDeflateLen, StoredLen(len)}

\* libdeflate_deflate_compress: the compressed size, or 0 when it does not fit
\* in out_nbytes_avail
libdeflate_deflate_compress(natsize, avail) == IF natsize <= avail THEN natsize ELSE 0

\* libdeflate_gzip_compress: 0 when out_nbytes_avail <= GZIP_MIN_OVERHEAD or the
\* deflate stream does not fit in what is left, else the size of the member
libdeflate_gzip_compress(natsize, avail) ==
    IF avail <= GZIP_MIN_OVERHEAD THEN 0
    ELSE IF libdeflate_deflate_compress(natsize, avail - GZIP_MIN_OVERHEAD) = 0 THEN 0
         ELSE natsize + GZIP_MIN_OVERHEAD

(***************************************************************************)
(* bgzip_compress_block                                                    *)
(***************************************************************************)
\* the space handed to libdeflate_deflate_compress: size_t arithmetic
PayloadAvail(dlen) == SubSizeT(SubSizeT(dlen, BLOCK_HEADER_LENGTH), BLOCK_FOOTER_LENGTH)

\* the value handed to packInt16 for the BSIZE field
BSizeValue(dlen) == dlen - 1

\* the 18 header bytes: g_magic with bytes 16 and 17 overwritten by packInt16
BlockHeader(dlen, be) ==
    SubSeq(g_magic, 1, 16) \o packInt16(BSizeValue(dlen), be)

Outcome(r, d, b, w, za, zf, cr) ==
    [ret |-> r, dlen |-> d, block |-> b, wrote |-> w, zalloc |-> za, zfree |-> zf,
     crash |-> cr]

\* The outcomes of bgzip_compress_block(dst, &dlen, src, slen, level) with
\* *dlen = cap bytes available at dst and src = B + off.  ret and dlen are the
\* return value and *dlen afterwards, block the bytes written from dst on, wrote
\* the end of the region written.  Writing past cap is undefined behaviour: the
\* call either carries on over foreign memory or the process faults (crash).
bgzip_compress_block(cap, off, slen, lvl, natsize, be) ==
    IF slen = 0
    THEN IF cap < EOF_MARKER_LENGTH
         THEN {Outcome(-1, cap, <<>>, 0, 0, 0, FALSE)}
         ELSE {Outcome(0, EOF_MARKER_LENGTH,
                       <<Bytes(SubSeq(g_magic, 1, 16)), Bytes(empty_tail)>>,
                       EOF_MARKER_LENGTH, 0, 0, FALSE)}
    ELSE IF ~libdeflate_alloc_compressor_ex(lvl)
    THEN {Outcome(-1, cap, <<>>, 0, 1, 0, FALSE)}
    ELSE LET clen == libdeflate_deflate_compress(natsize, PayloadAvail(cap))
             dlen == clen + BLOCK_HEADER_LENGTH + BLOCK_FOOTER_LENGTH
             blk  == <<Bytes(BlockHeader(dlen, be)), Deflate(off, slen, lvl, clen),
                       Crc32(off, slen), Bytes(packInt32(slen, be))>>
         IN  IF clen <= 0
             THEN {Outcome(-1, cap, <<>>, 0, 1, 1, FALSE)}
             ELSE IF dlen > cap
                  THEN {Outcome(0, dlen, blk, dlen, 1, 1, FALSE),
                        Outcome(-1, cap, <<>>, dlen, 1, 0, TRUE)}
                  ELSE {Outcome(0, dlen, blk, dlen, 1, 1, FALSE)}

(***************************************************************************)
(* Inputs                                                                  *)
(***************************************************************************)
Levels == {-2, -1, 0, 6, 9, 10}
ChunkTails == {0, 1, 256, BGZIP_BLOCK_SIZE - 1}
InputLens == {k * BGZIP_BLOCK_SIZE + d : k \in 0 .. (MaxChunks - 1), d \in ChunkTails}
\* the third SQL argument: absent, NULL, or a boolean
EofArgs == {"omitted", "null", "true", "false"}

NumChunks(n) == CeilDiv(n, BGZIP_BLOCK_SIZE)
SliceOff(i) == (i - 1) * BGZIP_BLOCK_SIZE
SliceLen(n, i) == Min(BGZIP_BLOCK_SIZE, n - SliceOff(i))

NatChoices(n, lvl) ==
    LET all == UNION {NaturalSizes(SliceLen(n, i), lvl) : i \in 1 .. NumChunks(n)}
    IN  {f \in [1 .. NumChunks(n) -> all] :
            \A i \in 1 .. NumChunks(n) : f[i] \in NaturalSizes(SliceLen(n, i), lvl)}

NatOf(i, len) == IF i \in DOMAIN nat THEN nat[i] ELSE StoredLen(len)

(***************************************************************************)
(* Results of a call                                                       *)
(***************************************************************************)
NoResult == [status |-> "none", out |-> <<>>, size |-> 0, err |-> "", arg |-> 0, cause |-> ""]
\* PG_RETURN_BYTEA_P(compressed) after SET_VARSIZE(compressed, size + VARHDRSZ)
Value(out, size) ==
    [status |-> "value", out |-> out, size |-> size, err |-> "", arg |-> 0, cause |-> ""]
\* elog(ERROR, ...): the call does not return; the error carries one number
Error(err, arg, cause) ==
    [status |-> "error", out |-> <<>>, size |-> 0, err |-> err, arg |-> arg, cause |-> cause]
\* PG_RETURN_NULL(): a normal return of SQL NULL
Null(cause) ==
    [status |-> "null", out |-> <<>>, size |-> 0, err |-> "", arg |-> 0, cause |-> cause]

Kinds == {"bgzip", "bgzip_eof", "gzip"}

(***************************************************************************)
(* pg_bgzip_compress                                                       *)
(***************************************************************************)
\* a level check whose upper limit is off by one
LevelValidOffByOne(lvl) == ~(lvl < -1 \/ lvl > 10)

\* the test of line 180 / 239, negated
LevelValid(lvl) == ~(lvl < -1 \/ lvl > 9)

\* a loop that also runs on an exhausted input
LoopCondNonNegative(size) == size >= 0

LoopCond(size) == size > 0

\* a chunk cut at the size of an output block instead of BGZIP_BLOCK_SIZE
ChunkSizeOfOutputBlock(size) ==
    IF size < BGZIP_MAX_BLOCK_SIZE THEN size ELSE BGZIP_MAX_BLOCK_SIZE

ChunkSize(size) == IF size < BGZIP_BLOCK_SIZE THEN size ELSE BGZIP_BLOCK_SIZE

\* an EOF marker appended whatever the flag says
AppendEofUnconditionally(buf, size, flag) ==
    <<Append(buf, <<Bytes(eof_marker)>>), size + EOF_MARKER_LENGTH>>

\* lines 203-209: the buffer and its size after the optional EOF marker
AppendEof(buf, size, flag) ==
    IF flag THEN <<Append(buf, <<Bytes(eof_marker)>>), size + EOF_MARKER_LENGTH>>
    ELSE <<buf, size>>

\* the number E() of line 196 reports
ErrorPosition(off, size) == size

\* lines 170-183: argument fetch, level check, first palloc
Enter_bgzip(eofArg) ==
    /\ pc = "idle"
    /\ LET eof  == (eofArg = "true")
           kind == IF eof THEN "bgzip_eof" ELSE "bgzip"
       IN  /\ cur' = kind
           /\ with_eof' = eof
           /\ in_off' = 0
           /\ in_size' = in_len
           /\ compressed' = <<>>
           /\ compressed_size' = 0
           /\ calls' = <<>>
           /\ nZalloc' = 0
           /\ zLive' = 0
           /\ IF ~LevelValid(level)
              THEN /\ pc' = "idle"
                   /\ nPalloc' = 0
                   /\ bufLive' = 0
                   /\ results' = [results EXCEPT ![kind] =
                                     Error("InvalidArgument", level, "level")]
              ELSE /\ pc' = "loop"
                   /\ nPalloc' = 1
                   /\ bufLive' = 1
                   /\ results' = [results EXCEPT ![kind] = NoResult]
    /\ UNCHANGED <<inputVars, encVars>>

\* lines 186-201: one iteration of the loop
LoopIter ==
    /\ pc = "loop"
    /\ LoopCond(in_size)
    /\ LET isize == ChunkSize(in_size)
           cap   == BGZIP_MAX_BLOCK_SIZE
       IN  \E o \in bgzip_compress_block(cap, in_off, isize, level,
                                         NatOf(Len(calls) + 1, isize), bigEndian) :
              /\ calls' = Append(calls, [off |-> in_off, len |-> isize, lvl |-> level,
                                         cap |-> cap, size |-> in_size, ret |-> o.ret])
              /\ nPalloc' = nPalloc + 1
              /\ nZalloc' = nZalloc + o.zalloc
              /\ IF o.crash
                 THEN /\ pc' = "idle"
                      /\ results' = [results EXCEPT ![cur] = Error("Crash", 0, "overrun")]
                      /\ UNCHANGED <<in_off, in_size, compressed, compressed_size,
                                     bufLive, zLive>>
                 ELSE IF o.ret # 0
                 THEN \* E(...): the transaction aborts and its memory context is reset
                      /\ pc' = "idle"
                      /\ results' = [results EXCEPT ![cur] =
                                        Error("CompressionFailure",
                                              ErrorPosition(in_off, in_size), "block")]
                      /\ compressed' = <<>>
                      /\ bufLive' = 0
                      /\ zLive' = 0
                      /\ UNCHANGED <<in_off, in_size, compressed_size>>
                 ELSE /\ in_off' = in_off + isize
                      /\ in_size' = in_size - isize
                      /\ compressed_size' = compressed_size + o.dlen
                      /\ compressed' = Append(compressed, o.block)
                      /\ zLive' = zLive + o.zalloc - o.zfree
                      /\ UNCHANGED <<pc, results, bufLive>>
    /\ UNCHANGED <<inputVars, encVars, cur, with_eof>>

\* lines 203-213: the optional EOF marker and the return
Finish ==
    /\ pc = "loop"
    /\ ~LoopCond(in_size)
    /\ LET r == AppendEof(compressed, compressed_size, with_eof)
       IN  /\ compressed' = r[1]
           /\ compressed_size' = r[2]
           /\ nPalloc' = nPalloc + (IF with_eof THEN 1 ELSE 0)
           /\ results' = [results EXCEPT ![cur] = Value(r[1], r[2])]
    /\ pc' = "idle"
    /\ UNCHANGED <<inputVars, encVars, cur, with_eof, in_off, in_size, bufLive, zLive,
                   nZalloc, calls>>

(***************************************************************************)
(* pg_bgzip_gzip_compress                                                  *)
(***************************************************************************)
\* line 246: the size of the output buffer
GzipBufferSize(ilen) == ilen + BLOCK_HEADER_LENGTH + BLOCK_FOOTER_LENGTH

\* what the bailout label returns
Bailout(cause) == Null(cause)

\* the whole function; it has no loop
Call_gzip ==
    /\ pc = "idle"
    /\ cur' = "gzip"
    /\ with_eof' = FALSE
    /\ in_off' = 0
    /\ in_size' = in_len
    /\ calls' = <<>>
    /\ compressed_size' = 0
    /\ pc' = "idle"
    /\ zLive' = 0
    /\ IF ~LevelValid(level)
       THEN /\ results' = [results EXCEPT !["gzip"] = Error("InvalidArgument", level, "level")]
            /\ nPalloc' = 0
            /\ nZalloc' = 0
            /\ bufLive' = 0
            /\ compressed' = <<>>
       ELSE LET dlen == GzipBufferSize(in_len)
                z    == libdeflate_alloc_compressor_ex(level)
                clen == libdeflate_gzip_compress(gznat, dlen)
            IN  /\ nPalloc' = 1
                /\ nZalloc' = 1
                /\ IF ~z
                   THEN /\ results' = [results EXCEPT !["gzip"] = Bailout("alloc_compressor")]
                        /\ bufLive' = 0
                        /\ compressed' = <<>>
                   ELSE IF clen <= 0
                   THEN /\ results' = [results EXCEPT !["gzip"] = Bailout("gzip_compress")]
                        /\ bufLive' = 0
                        /\ compressed' = <<>>
                   ELSE /\ results' = [results EXCEPT !["gzip"] =
                               Value(<<<<GzipMember(0, in_len, level, clen)>>>>, clen)]
                        /\ bufLive' = 1
                        /\ compressed' = <<<<GzipMember(0, in_len, level, clen)>>>>
    /\ UNCHANGED <<inputVars, encVars>>

(***************************************************************************)
(* Specification of the two entry points                                   *)
(***************************************************************************)
NoEnc == [cap |-> 0, slen |-> 0, lvl |-> 0, natsize |-> 0, be |-> FALSE]
NoOutcome == Outcome(0, 0, <<>>, 0, 0, 0, FALSE)

Init ==
    /\ in_len \in InputLens
    /\ level \in Levels
    /\ bigEndian \in BOOLEAN
    /\ nat \in NatChoices(in_len, level)
    /\ gznat \in NaturalSizes(in_len, level)
    /\ pc = "idle"
    /\ cur = "none"
    /\ with_eof = FALSE
    /\ in_off = 0
    /\ in_size = 0
    /\ compressed = <<>>
    /\ compressed_size = 0
    /\ bufLive = 0
    /\ zLive = 0
    /\ nPalloc = 0
    /\ nZalloc = 0
    /\ calls = <<>>
    /\ results = [k \in Kinds |-> NoResult]
    /\ encArgs = NoEnc
    /\ encRes = [done |-> FALSE, o |-> NoOutcome]

Next ==
    \/ \E a \in EofArgs : Enter_bgzip(a)
    \/ LoopIter
    \/ Finish
    \/ Call_gzip

Spec == Init /\ [][Next]_vars

(***************************************************************************)
(* Specification of bgzip_compress_block alone, for any destination        *)
(* capacity                                                                *)
(***************************************************************************)
EncCaps == {0, 1, 17, 18, 25, 26, 27, 28, 29, 31,
            StoredLen(BGZIP_BLOCK_SIZE) + 25, StoredLen(BGZIP_BLOCK_SIZE) + 26,
            BGZIP_MAX_BLOCK_SIZE}
EncLens == {0, 1, BGZIP_BLOCK_SIZE}
EncLevels == {-1, 0, 6}

InitEnc ==
    /\ in_len = 0
    /\ level = 0
    /\ bigEndian = FALSE
    /\ nat = <<>>
    /\ gznat = StoredLen(0)
    /\ pc = "idle"
    /\ cur = "none"
    /\ with_eof = FALSE
    /\ in_off = 0
    /\ in_size = 0
    /\ compressed = <<>>
    /\ compressed_size = 0
    /\ bufLive = 0
    /\ zLive = 0
    /\ nPalloc = 0
    /\ nZalloc = 0
    /\ calls = <<>>
    /\ results = [k \in Kinds |-> NoResult]
    /\ \E c \in EncCaps, l \in EncLens, v \in EncLevels, b \in BOOLEAN :
          \E n \in NaturalSizes(l, v) :
             encArgs = [cap |-> c, slen |-> l, lvl |-> v, natsize |-> n, be |-> b]
    /\ encRes = [done |-> FALSE, o |-> NoOutcome]

Call_block ==
    /\ ~encRes.done
    /\ \E o \in bgzip_compress_block(encArgs.cap, 0, encArgs.slen, encArgs.lvl,
                                     encArgs.natsize, encArgs.be) :
          encRes' = [done |-> TRUE, o |-> o]
    /\ UNCHANGED <<inputVars, pc, cur, with_eof, in_off, in_size, compressed,
                   compressed_size, bufLive, zLive, nPalloc, nZalloc, calls, results,
                   encArgs>>

NextEnc == Call_block

SpecEnc == InitEnc /\ [][NextEnc]_vars

(***************************************************************************)
(* Vocabulary of the claims                                                *)
(***************************************************************************)
\* the accepted level domain, {-1} \cup [0, 9]
AcceptedLevels == {-1} \cup (0 .. 9)

BgzipKinds == {"bgzip", "bgzip_eof"}

\* a pg_bgzip_compress call has just returned a value
BgzipReturned == pc = "idle" /\ cur \in BgzipKinds /\ results[cur].status = "value"

\* a pg_bgzip_compress call has just ended, one way or another
BgzipEnded == pc = "idle" /\ cur \in BgzipKinds /\ results[cur].status # "none"

\* block b may be byte-identical to the EOF marker: it is 28 bytes long and
\* none of its concrete bytes differs from the marker's
MayBeEofMarker(b) ==
    /\ BlockLen(b) = EOF_MARKER_LENGTH
    /\ \A i \in 0 .. (EOF_MARKER_LENGTH - 1) : ByteAt(b, i) \in {-1, eof_marker[i + 1]}

\* the BSIZE field of block b, read as a little-endian 16-bit number
BSizeField(b) == unpackInt16(<<ByteAt(b, 16), ByteAt(b, 17)>>)

\* block b is laid out as header, payload, footer; it fits in 65536 bytes and
\* its BSIZE field holds its length less one
BlockWellFormed(b) ==
    /\ Len(b) = 4
    /\ BlockLen(b) = BLOCK_HEADER_LENGTH + b[2].n + BLOCK_FOOTER_LENGTH
    /\ BlockLen(b) <= 65536
    /\ BSizeField(b) = BlockLen(b) - 1

\* the data blocks of the buffer being built: those the loop appended
DataBlocks == SubSeq(compressed, 1, Min(Len(calls), Len(compressed)))

RECURSIVE SumLen(_)
SumLen(cs) == IF cs = <<>> THEN 0 ELSE Head(cs).len + SumLen(Tail(cs))

(***************************************************************************)
(* Claims                                                                  *)
(***************************************************************************)

\* C1: when pg_bgzip_compress completes, bgzip_compress_block was called
\* ceil(n / 0xff00) times, the i-th call on the i-th 0xff00-byte slice of the
\* input (the last one possibly shorter), the i-th block of the output encodes
\* that slice, and the slices in order cover the input with no gap or overlap.
C1_ChunksInOrder ==
    BgzipReturned =>
        /\ Len(calls) = CeilDiv(in_len, 65280)
        /\ SumLen(calls) = in_len
        /\ \A i \in DOMAIN calls :
              /\ calls[i].off = (i - 1) * 65280
              /\ calls[i].len = Min(65280, in_len - (i - 1) * 65280)
              /\ calls[i].off = SumLen(SubSeq(calls, 1, i - 1))
              /\ results[cur].out[i][2] = Deflate(calls[i].off, calls[i].len, level,
                                                  results[cur].out[i][2].n)
              /\ results[cur].out[i][3] = Crc32(calls[i].off, calls[i].len)

C1_Witness ==
    /\ BgzipReturned
    /\ Len(calls) = 3
    /\ calls[3].len = 1
    /\ calls[3].off = 130560

\* C2: for the same buffer and level, the output with the EOF flag is the output
\* without it followed by the 28-byte EOF marker (BSIZE = 27, empty deflate
\* payload, CRC = 0, ISIZE = 0), and the two calls end the same way.
C2_EofAppended ==
    LET a == results["bgzip"]
        b == results["bgzip_eof"]
    IN  /\ (a.status # "none" /\ b.status # "none") => a.status = b.status
        /\ (a.status = "value" /\ b.status = "value") =>
              /\ b.out = Append(a.out, <<Bytes(eof_marker)>>)
              /\ b.size = a.size + 28
              /\ a.size = TotalLen(a.out)
              /\ b.size = TotalLen(b.out)
              /\ Len(eof_marker) = 28
              /\ unpackInt16(SubSeq(eof_marker, 17, 18)) = 27
              /\ SubSeq(eof_marker, 19, 20) = <<3, 0>>
              /\ SubSeq(eof_marker, 21, 28) = <<0, 0, 0, 0, 0, 0, 0, 0>>

C2_Witness ==
    /\ results["bgzip"].status = "value"
    /\ results["bgzip_eof"].status = "value"
    /\ Len(results["bgzip"].out) = 2

\* C3: every block the encoder emits for the driver is 18 + payload + 8 bytes
\* long, at most 65536, and its little-endian BSIZE field at offset 16 holds
\* exactly its length less one.
C3_BSizeExact ==
    cur \in BgzipKinds => \A i \in DOMAIN DataBlocks : BlockWellFormed(DataBlocks[i])

\* The same on a little-endian host.
BSizeExactLittleEndian ==
    (cur \in BgzipKinds /\ ~bigEndian) =>
        \A i \in DOMAIN DataBlocks : BlockWellFormed(DataBlocks[i])

\* C4: with level -1, as with level 6, pg_bgzip_compress passes validation,
\* hands the level unchanged to the compressor allocation for each chunk,
\* completes without error and returns one block per chunk.
C4_DefaultLevelAccepted ==
    (BgzipEnded /\ level \in {-1, 6}) =>
        /\ results[cur].status = "value"
        /\ Len(calls) = CeilDiv(in_len, 65280)
        /\ \A i \in DOMAIN calls : calls[i].lvl = level /\ calls[i].ret = 0

\* C5: for every buffer and every level the compressor allocation takes,
\* pg_bgzip_gzip_compress returns one gzip member of the whole buffer: the
\* input_len + 18 + 8 bytes of output are always enough.  (Level -1, which the
\* allocation refuses, is C4's.)
C5_GzipAlwaysFits ==
    (results["gzip"].status # "none" /\ level \in AcceptedLevels /\ level # -1) =>
        /\ results["gzip"].status = "value"
        /\ results["gzip"].cause # "gzip_compress"
        /\ Len(results["gzip"].out) = 1
        /\ results["gzip"].out[1][1].k = "gzip"
        /\ results["gzip"].out[1][1].len = in_len
        /\ results["gzip"].size <= in_len + 18 + 8

\* C6: in both entry points a level outside {-1} \cup [0, 9] is rejected with
\* InvalidArgument before any compressor or output buffer is allocated and
\* nothing is returned; a level inside the domain is never rejected so.
C6_InvalidLevelRejected ==
    /\ (level \notin AcceptedLevels) =>
          /\ pc = "idle"
          /\ nPalloc = 0 /\ nZalloc = 0 /\ bufLive = 0 /\ zLive = 0
          /\ calls = <<>> /\ compressed = <<>>
          /\ \A k \in Kinds :
                results[k].status # "none" =>
                    /\ results[k].status = "error"
                    /\ results[k].err = "InvalidArgument"
                    /\ results[k].arg = level
                    /\ results[k].out = <<>>
    /\ (level \in AcceptedLevels) =>
          \A k \in Kinds : results[k].err # "InvalidArgument"

C6_Witness ==
    /\ level = 10
    /\ results["gzip"].status = "error"
    /\ results["bgzip"].status = "error"
    /\ results["bgzip_eof"].status = "error"

\* C7: when the encoder fails on a chunk, the error pg_bgzip_compress raises
\* carries the offset of that chunk in the input (0 for the first chunk,
\* k * 0xff00 for chunk k + 1), and no output is returned.
C7_ErrorCarriesOffset ==
    (BgzipEnded /\ results[cur].err = "CompressionFailure") =>
        /\ results[cur].arg = (Len(calls) - 1) * 65280
        /\ results[cur].out = <<>>

\* C8: when the primitive fails in pg_bgzip_gzip_compress (no compressor, or
\* the member does not fit), buffer and compressor are released and the call
\* fails with a CompressionFailure error; it never returns normally.
C8_GzipFailureRaises ==
    (cur = "gzip" /\ results["gzip"].cause \in {"alloc_compressor", "gzip_compress"}) =>
        /\ bufLive = 0
        /\ zLive = 0
        /\ results["gzip"].status = "error"
        /\ results["gzip"].err = "CompressionFailure"

\* C9: the driver never calls the encoder with an empty chunk (every chunk has
\* 1 to 0xff00 bytes); in a returned output, the blocks that may equal the EOF
\* marker are the last one when the flag is set and none when it is not; an
\* empty input without the flag gives an empty output.
C9_EofMarkerOnlyLast ==
    cur \in BgzipKinds =>
        /\ \A i \in DOMAIN calls : calls[i].len >= 1 /\ calls[i].len <= 65280
        /\ BgzipReturned =>
              LET out == results[cur].out
              IN  /\ {i \in DOMAIN out : MayBeEofMarker(out[i])}
                        = (IF with_eof THEN {Len(out)} ELSE {})
                  /\ Len(out) = Len(calls) + (IF with_eof THEN 1 ELSE 0)
                  /\ (in_len = 0 /\ ~with_eof) => (out = <<>> /\ results[cur].size = 0)

C9_Witness ==
    /\ BgzipReturned
    /\ with_eof
    /\ Len(results[cur].out) = 3
    /\ MayBeEofMarker(results[cur].out[3])

\* C10: for every destination capacity and every non-empty chunk the encoder
\* either fails, or succeeds with a block no longer than the capacity and no
\* byte written past it; a capacity below 26 fails without writing.
C10_EncoderWithinCapacity ==
    (encRes.done /\ encArgs.slen > 0) =>
        /\ ~encRes.o.crash
        /\ encRes.o.wrote <= encArgs.cap
        /\ encRes.o.ret = 0 => encRes.o.dlen <= encArgs.cap
        /\ encArgs.cap < 26 => (encRes.o.ret # 0 /\ encRes.o.wrote = 0)

====
